---- MODULE Spec2Model ----
(***************************************************************************)
(* A model of the data structures of the repository:                       *)
(*   src/src/tree/splay_tree.py   the heap of Node objects, the SplayTree  *)
(*                                that owns the root, its public methods;  *)
(*   src/src/tree/bst.py          the plain binary search tree;            *)
(*   src/stack/fast_thread_safe_stack.py,                                  *)
(*   src/stack/optimized_none_blocking_stack.py and                        *)
(*   src/stack/minimal_lock_stack.py                                       *)
(*                                the stacks, called by several threads.   *)
(* The splay tree comes first; the other classes follow it, then the       *)
(* specifications, one per class, and the properties checked of them.      *)
(***************************************************************************)
EXTENDS Integers, Sequences, FiniteSets, TLC

\* ------------------------------------------------------------------ bounds
\* Keys are 1..MaxKey, and at most MaxAlloc Node objects are constructed in
\* one run.
MaxKey == 3
MaxAlloc == 3

\* ------------------------------------------------------------ the Node heap
\* None, as a node reference.
Nil == 0
\* None, as a stored value (insert's default value).
NoneVal == 0
\* A value that is not None. Values are opaque to the tree: no method reads
\* one, and only find's caller tells None from the rest.
SomeVal == 1

Keys == 1..MaxKey
Values == {NoneVal, SomeVal}
Nodes == 1..MaxAlloc

VARIABLES
    root,      \* SplayTree.root: a node, or Nil
    key,       \* Node.key of every constructed node
    value,     \* Node.value
    left,      \* Node.left
    right,     \* Node.right
    parent,    \* Node.parent
    nalloc,    \* how many Node objects have been constructed
    lastOp,    \* the public call that ran last, its arguments, and whether its
               \* key was stored when it began
    ret,       \* what that call returned
    raised,    \* whether that call raised instead of returning
    latest     \* per key, whether an insert of it was not yet followed by a
               \* successful delete, and the value of the latest insert

vars == <<root, key, value, left, right, parent, nalloc, lastOp, ret, raised, latest>>

\* The state of a BST object (src/src/tree/bst.py).
VARIABLES
    bst,        \* BST.root
    bExpected,  \* per value, how many inserts of it are not yet matched by a
                \* delete of it that found it
    bCalls,     \* how many values have been inserted (_insert_one calls)
    bDeleted,   \* whether delete has been called
    bLastOp     \* the public call that ran last and its argument

bstvars == <<bst, bExpected, bCalls, bDeleted, bLastOp>>

\* The state of a FastNonBlockingStack object and of the threads that call it
\* (src/stack/fast_thread_safe_stack.py).
VARIABLES
    fMaxsize,   \* _maxsize, the constructor's argument: 0 means unlimited
    fItems,     \* _items, bottom first
    fLock,      \* the thread that holds _lock, or 0
    fWaiters,   \* the threads waiting on _not_empty, oldest first
    fPc,        \* per thread, where it is in the method it called
    fOp,        \* per thread, the method it called
    fArg,       \* per thread, the item it is pushing
    fRet,       \* the call that returned last: its thread, method and result
    fNext,      \* how many push calls have begun: items are numbered by them
    fPushed,    \* the items appended so far, in the order they were appended
    fPopped     \* per item, how many pop or try_pop calls returned it

fastvars ==
    <<fMaxsize, fItems, fLock, fWaiters, fPc, fOp, fArg, fRet, fNext, fPushed, fPopped>>

\* The state of an OptimizedNonBlockingStack object and of the threads that
\* call it (src/stack/optimized_none_blocking_stack.py).
VARIABLES
    oMaxsize,   \* the maxsize of _queue, the constructor's argument
    oItems,     \* the items in _queue, bottom first
    oClosed,    \* _closed
    oCloseLock, \* the thread that holds _close_lock, or 0
    oPc,        \* per thread, where it is in the method it called
    oOp,        \* per thread, the method it called
    oArg,       \* per thread, the item it is pushing or has taken in peek
    oRet,       \* the call that ended last: its thread, method and result
    oNext,      \* how many push calls have passed the closed test
    oCloseReturned  \* whether a call of close() has returned

optvars ==
    <<oMaxsize, oItems, oClosed, oCloseLock, oPc, oOp, oArg, oRet, oNext, oCloseReturned>>

\* The state of a MinimalLockStack object and of the threads that call it
\* (src/stack/minimal_lock_stack.py).
VARIABLES
    mMaxsize,   \* _maxsize, the constructor's argument: 0 means unlimited
    mItems,     \* _items, bottom first
    mLock,      \* the thread that holds _lock, or 0
    mPc,        \* per thread, where it is in the method it called
    mOp,        \* per thread, the method it called
    mArg,       \* per thread, the item it is pushing
    mRet,       \* the call that ended last: its thread, method and result
    mNext,      \* how many push calls have begun: items are numbered by them
    mPopped     \* per item, how many pop or try_pop calls returned it

minvars == <<mMaxsize, mItems, mLock, mPc, mOp, mArg, mRet, mNext, mPopped>>

\* What a run of SplayTree calls has cost so far.
VARIABLES
    cOps,       \* how many public calls were made
    cTotal      \* how many nodes their descents visited, plus how many rotations
                \* their splays made

costvars == <<cOps, cTotal>>

\* A step of one class leaves the objects of the others as they are.
OnlySplayTree == UNCHANGED <<bstvars, fastvars, optvars, minvars, costvars>>
OnlyBst == UNCHANGED <<vars, fastvars, optvars, minvars, costvars>>
OnlyFast == UNCHANGED <<vars, bstvars, optvars, minvars, costvars>>
OnlyOpt == UNCHANGED <<vars, bstvars, fastvars, minvars, costvars>>
OnlyMin == UNCHANGED <<vars, bstvars, fastvars, optvars, costvars>>
OnlyCounted == UNCHANGED <<bstvars, fastvars, optvars, minvars>>

\* The heap as one value, so that the methods are operators from trees to trees.
\* err records an AttributeError raised by dereferencing None.
Tree ==
    [root |-> root, key |-> key, value |-> value, left |-> left,
     right |-> right, parent |-> parent, nalloc |-> nalloc, err |-> FALSE]

\* Python values returned by the public methods.
PyNone == [tag |-> "None", a |-> 0, b |-> 0]
PyBool(x) == [tag |-> "bool", a |-> IF x THEN 1 ELSE 0, b |-> 0]
PyTuple(k, v) == [tag |-> "tuple", a |-> k, b |-> v]
PyValue(v) == IF v = NoneVal THEN PyNone ELSE [tag |-> "value", a |-> v, b |-> 0]

\* Mutant: the constructor is called without the value, Node(key).
NewNodeNoValue(t, k, v) ==
    LET n == t.nalloc + 1 IN
    [t EXCEPT !.nalloc = n, !.key[n] = k, !.value[n] = NoneVal,
              !.left[n] = Nil, !.right[n] = Nil, !.parent[n] = Nil]

\* Node(key, value): a fresh object with no links.
NewNode(t, k, v) ==
    LET n == t.nalloc + 1 IN
    [t EXCEPT !.nalloc = n, !.key[n] = k, !.value[n] = v,
              !.left[n] = Nil, !.right[n] = Nil, !.parent[n] = Nil]

\* ---------------------------------------------------------------- rotations
\* Mutant: the subtree that changes sides keeps its old parent link.
RotateRightStaleParent(t, x) ==
    LET y == t.left[x] IN
    IF t.err THEN t
    ELSE IF y = Nil THEN [t EXCEPT !.err = TRUE]
    ELSE
      LET t1 == [t EXCEPT !.left[x] = t.right[y]]
          t3 == [t1 EXCEPT !.parent[y] = t1.parent[x]]
          t4 == IF t3.parent[x] = Nil THEN [t3 EXCEPT !.root = y]
                ELSE IF x = t3.right[t3.parent[x]]
                     THEN [t3 EXCEPT !.right[t3.parent[x]] = y]
                     ELSE [t3 EXCEPT !.left[t3.parent[x]] = y]
      IN [t4 EXCEPT !.right[y] = x, !.parent[x] = y]

RotateRight(t, x) ==
    LET y == t.left[x] IN
    IF t.err THEN t
    ELSE IF y = Nil THEN [t EXCEPT !.err = TRUE]
    ELSE
      LET t1 == [t EXCEPT !.left[x] = t.right[y]]
          t2 == IF t1.right[y] # Nil THEN [t1 EXCEPT !.parent[t1.right[y]] = x] ELSE t1
          t3 == [t2 EXCEPT !.parent[y] = t2.parent[x]]
          t4 == IF t3.parent[x] = Nil THEN [t3 EXCEPT !.root = y]
                ELSE IF x = t3.right[t3.parent[x]]
                     THEN [t3 EXCEPT !.right[t3.parent[x]] = y]
                     ELSE [t3 EXCEPT !.left[t3.parent[x]] = y]
      IN [t4 EXCEPT !.right[y] = x, !.parent[x] = y]

\* Mutant: the subtree that changes sides is dropped instead of moved.
RotateLeftDropsInner(t, x) ==
    LET y == t.right[x] IN
    IF t.err THEN t
    ELSE IF y = Nil THEN [t EXCEPT !.err = TRUE]
    ELSE
      LET t1 == [t EXCEPT !.right[x] = Nil]
          t3 == [t1 EXCEPT !.parent[y] = t1.parent[x]]
          t4 == IF t3.parent[x] = Nil THEN [t3 EXCEPT !.root = y]
                ELSE IF x = t3.left[t3.parent[x]]
                     THEN [t3 EXCEPT !.left[t3.parent[x]] = y]
                     ELSE [t3 EXCEPT !.right[t3.parent[x]] = y]
      IN [t4 EXCEPT !.left[y] = x, !.parent[x] = y]

RotateLeft(t, x) ==
    LET y == t.right[x] IN
    IF t.err THEN t
    ELSE IF y = Nil THEN [t EXCEPT !.err = TRUE]
    ELSE
      LET t1 == [t EXCEPT !.right[x] = t.left[y]]
          t2 == IF t1.left[y] # Nil THEN [t1 EXCEPT !.parent[t1.left[y]] = x] ELSE t1
          t3 == [t2 EXCEPT !.parent[y] = t2.parent[x]]
          t4 == IF t3.parent[x] = Nil THEN [t3 EXCEPT !.root = y]
                ELSE IF x = t3.left[t3.parent[x]]
                     THEN [t3 EXCEPT !.left[t3.parent[x]] = y]
                     ELSE [t3 EXCEPT !.right[t3.parent[x]] = y]
      IN [t4 EXCEPT !.left[y] = x, !.parent[x] = y]

\* ------------------------------------------------------------------- splay
\* Mutant: the zig-zig cases rotate the grandparent only.
SplayStepHalfZigZig(t, node) ==
    LET p == t.parent[node]
        g == t.parent[p]
    IN IF g = Nil
         THEN IF node = t.left[p] THEN RotateRight(t, p) ELSE RotateLeft(t, p)
       ELSE IF node = t.left[p] /\ p = t.left[g]
         THEN RotateRight(t, g)
       ELSE IF node = t.right[p] /\ p = t.right[g]
         THEN RotateLeft(t, g)
       ELSE IF node = t.left[p] /\ p = t.right[g]
         THEN RotateLeft(RotateRight(t, p), g)
       ELSE RotateRight(RotateLeft(t, p), g)

\* Mutant: the first zig-zig test leaves out the side of the parent, so a node
\* that is a left child under a right child is treated as a zig-zig.
SplayStepZigZigAnySide(t, node) ==
    LET p == t.parent[node]
        g == t.parent[p]
    IN IF g = Nil
         THEN IF node = t.left[p] THEN RotateRight(t, p) ELSE RotateLeft(t, p)
       ELSE IF node = t.left[p]
         THEN RotateRight(RotateRight(t, g), p)
       ELSE IF node = t.right[p] /\ p = t.right[g]
         THEN RotateLeft(RotateLeft(t, g), p)
       ELSE RotateRight(RotateLeft(t, p), g)

\* Mutant: the zig-zig cases rotate the parent first and the grandparent
\* second, the order of a zig-zag.
SplayStepParentFirst(t, node) ==
    LET p == t.parent[node]
        g == t.parent[p]
    IN IF g = Nil
         THEN IF node = t.left[p] THEN RotateRight(t, p) ELSE RotateLeft(t, p)
       ELSE IF node = t.left[p] /\ p = t.left[g]
         THEN RotateRight(RotateRight(t, p), g)
       ELSE IF node = t.right[p] /\ p = t.right[g]
         THEN RotateLeft(RotateLeft(t, p), g)
       ELSE IF node = t.left[p] /\ p = t.right[g]
         THEN RotateLeft(RotateRight(t, p), g)
       ELSE RotateRight(RotateLeft(t, p), g)

\* One iteration of _splay's loop body, for a node whose parent is not None.
SplayStep(t, node) ==
    LET p == t.parent[node]
        g == t.parent[p]
    IN IF g = Nil
         THEN IF node = t.left[p] THEN RotateRight(t, p) ELSE RotateLeft(t, p)
       ELSE IF node = t.left[p] /\ p = t.left[g]
         THEN RotateRight(RotateRight(t, g), p)
       ELSE IF node = t.right[p] /\ p = t.right[g]
         THEN RotateLeft(RotateLeft(t, g), p)
       ELSE IF node = t.left[p] /\ p = t.right[g]
         THEN RotateLeft(RotateRight(t, p), g)
       ELSE RotateRight(RotateLeft(t, p), g)

RECURSIVE SplayLoop(_, _)

\* Mutant: the loop stops under the root, as if the zig case were missing.
SplayLoopNoZig(t, node) ==
    IF t.err \/ t.parent[node] = Nil \/ t.parent[t.parent[node]] = Nil THEN t
    ELSE SplayLoop(SplayStep(t, node), node)

\* The while loop of _splay.
SplayLoop(t, node) ==
    IF t.err \/ t.parent[node] = Nil THEN t
    ELSE SplayLoop(SplayStep(t, node), node)

Splay(t, node) == IF node = Nil THEN t ELSE SplayLoop(t, node)

\* What _splay returns: its argument, None included.
SplayReturn(node) == IF node = Nil THEN Nil ELSE node

\* ------------------------------------------------------------------ insert
RECURSIVE InsertFrom(_, _, _, _)

\* Mutant: the descent compares the wrong way round.
InsertFromFlipped(t, current, k, v) ==
    IF k = t.key[current]
      THEN Splay([t EXCEPT !.value[current] = v], current)
    ELSE IF k > t.key[current]
      THEN IF t.left[current] = Nil
             THEN LET t1 == NewNode(t, k, v)
                      n == t1.nalloc
                  IN Splay([t1 EXCEPT !.left[current] = n, !.parent[n] = current], n)
             ELSE InsertFrom(t, t.left[current], k, v)
    ELSE IF t.right[current] = Nil
             THEN LET t1 == NewNode(t, k, v)
                      n == t1.nalloc
                  IN Splay([t1 EXCEPT !.right[current] = n, !.parent[n] = current], n)
             ELSE InsertFrom(t, t.right[current], k, v)

\* Mutant: a key that is found is splayed but its value is not overwritten.
InsertFromKeepsValue(t, current, k, v) ==
    IF k = t.key[current]
      THEN Splay(t, current)
    ELSE IF k < t.key[current]
      THEN IF t.left[current] = Nil
             THEN LET t1 == NewNode(t, k, v)
                      n == t1.nalloc
                  IN Splay([t1 EXCEPT !.left[current] = n, !.parent[n] = current], n)
             ELSE InsertFrom(t, t.left[current], k, v)
    ELSE IF t.right[current] = Nil
             THEN LET t1 == NewNode(t, k, v)
                      n == t1.nalloc
                  IN Splay([t1 EXCEPT !.right[current] = n, !.parent[n] = current], n)
             ELSE InsertFrom(t, t.right[current], k, v)

\* The while loop of insert, from the node `current`.
InsertFrom(t, current, k, v) ==
    IF k = t.key[current]
      THEN Splay([t EXCEPT !.value[current] = v], current)
    ELSE IF k < t.key[current]
      THEN IF t.left[current] = Nil
             THEN LET t1 == NewNode(t, k, v)
                      n == t1.nalloc
                  IN Splay([t1 EXCEPT !.left[current] = n, !.parent[n] = current], n)
             ELSE InsertFrom(t, t.left[current], k, v)
    ELSE IF t.right[current] = Nil
             THEN LET t1 == NewNode(t, k, v)
                      n == t1.nalloc
                  IN Splay([t1 EXCEPT !.right[current] = n, !.parent[n] = current], n)
             ELSE InsertFrom(t, t.right[current], k, v)

\* Mutant: the node built for an empty tree is not stored in self.root.
insertNoRoot(t, k, v) ==
    IF t.root = Nil
      THEN NewNode(t, k, v)
      ELSE InsertFrom(t, t.root, k, v)

insert(t, k, v) ==
    IF t.root = Nil
      THEN LET t1 == NewNode(t, k, v) IN [t1 EXCEPT !.root = t1.nalloc]
      ELSE InsertFrom(t, t.root, k, v)

\* -------------------------------------------------------------------- find
\* A method that returns a value yields the tree it leaves and that value.
Result(t, r) == [t |-> t, ret |-> r]

RECURSIVE FindFrom(_, _, _)

\* Mutant: the descent compares the wrong way round.
FindFromFlipped(t, current, k) ==
    IF current = Nil THEN Result(t, PyNone)
    ELSE IF k = t.key[current]
      THEN Result(Splay(t, current), PyValue(t.value[current]))
    ELSE IF k > t.key[current]
      THEN IF t.left[current] = Nil
             THEN Result(Splay(t, current), PyNone)
             ELSE FindFrom(t, t.left[current], k)
    ELSE IF t.right[current] = Nil
             THEN Result(Splay(t, current), PyNone)
             ELSE FindFrom(t, t.right[current], k)

\* Mutant: a descent that ends without finding the key splays nothing.
FindFromNoMissSplay(t, current, k) ==
    IF current = Nil THEN Result(t, PyNone)
    ELSE IF k = t.key[current]
      THEN Result(Splay(t, current), PyValue(t.value[current]))
    ELSE IF k < t.key[current]
      THEN IF t.left[current] = Nil
             THEN Result(t, PyNone)
             ELSE FindFrom(t, t.left[current], k)
    ELSE IF t.right[current] = Nil
             THEN Result(t, PyNone)
             ELSE FindFrom(t, t.right[current], k)

\* Mutant: a hit returns the key of the node instead of its value.
FindFromReturnsKey(t, current, k) ==
    IF current = Nil THEN Result(t, PyNone)
    ELSE IF k = t.key[current]
      THEN Result(Splay(t, current), PyValue(t.key[current]))
    ELSE IF k < t.key[current]
      THEN IF t.left[current] = Nil
             THEN Result(Splay(t, current), PyNone)
             ELSE FindFrom(t, t.left[current], k)
    ELSE IF t.right[current] = Nil
             THEN Result(Splay(t, current), PyNone)
             ELSE FindFrom(t, t.right[current], k)

\* The while loop of find, from the node `current`.
FindFrom(t, current, k) ==
    IF current = Nil THEN Result(t, PyNone)
    ELSE IF k = t.key[current]
      THEN Result(Splay(t, current), PyValue(t.value[current]))
    ELSE IF k < t.key[current]
      THEN IF t.left[current] = Nil
             THEN Result(Splay(t, current), PyNone)
             ELSE FindFrom(t, t.left[current], k)
    ELSE IF t.right[current] = Nil
             THEN Result(Splay(t, current), PyNone)
             ELSE FindFrom(t, t.right[current], k)

find(t, k) ==
    IF t.root = Nil THEN Result(t, PyNone) ELSE FindFrom(t, t.root, k)

\* ------------------------------------------------------------------ delete
RECURSIVE FindNodeFrom(_, _, _)
FindNodeFrom(t, current, k) ==
    IF current = Nil THEN Nil
    ELSE IF k = t.key[current] THEN current
    ELSE IF k < t.key[current]
      THEN IF t.left[current] = Nil THEN current
           ELSE FindNodeFrom(t, t.left[current], k)
    ELSE IF t.right[current] = Nil THEN current
           ELSE FindNodeFrom(t, t.right[current], k)

\* _find_node: the node holding k, or the last node of the descent, or Nil.
find_node(t, k) == IF t.root = Nil THEN Nil ELSE FindNodeFrom(t, t.root, k)

\* The while loop of delete and of maximum: follow right links to the end.
RECURSIVE RightMost(_, _)
RightMost(t, n) == IF t.right[n] = Nil THEN n ELSE RightMost(t, t.right[n])

\* The while loop of minimum: follow left links to the end.
RECURSIVE LeftMost(_, _)
LeftMost(t, n) == IF t.left[n] = Nil THEN n ELSE LeftMost(t, t.left[n])

\* delete's last branch up to line 194: the walk to the maximum of the left
\* subtree of node, and the tree that _splay(left_max) leaves.
LeftMax(t, node) == RightMost(t, t.left[node])
InnerSplay(t, node) == Splay(t, LeftMax(t, node))

\* Mutant: the right subtree is not attached to the splayed maximum.
DeleteBothNoReattach(t, node) ==
    LET left_max == RightMost(t, t.left[node])
        t1 == Splay(t, left_max)
    IN IF t1.err THEN t1 ELSE [t1 EXCEPT !.root = left_max]

\* delete's last branch: the node, now root, has both children.
DeleteBoth(t, node) ==
    LET left_max == RightMost(t, t.left[node])
        t1 == Splay(t, left_max)
    IN IF t1.err THEN t1
       ELSE LET t2 == [t1 EXCEPT !.right[left_max] = t1.right[node]]
                t3 == [t2 EXCEPT !.parent[t2.right[node]] = left_max]
            IN [t3 EXCEPT !.root = left_max]

\* Mutant: the new root keeps its parent link to the removed node.
ReplaceRootKeepsParent(t, child) == [t EXCEPT !.root = child]

\* delete's first two branches: the root is replaced by its only child, if any.
ReplaceRoot(t, child) ==
    LET t1 == [t EXCEPT !.root = child]
    IN IF t1.root # Nil THEN [t1 EXCEPT !.parent[t1.root] = Nil] ELSE t1

\* Mutant: the node the descent ends at is splayed before its key is checked.
deleteSplaysFirst(t, k) ==
    LET node == find_node(t, k)
        t1 == Splay(t, node)
    IN
    IF node = Nil \/ t.key[node] # k THEN Result(t1, PyBool(FALSE))
    ELSE
      IF t1.err THEN Result(t1, PyNone)
      ELSE IF t1.left[node] = Nil
        THEN Result(ReplaceRoot(t1, t1.right[node]), PyBool(TRUE))
      ELSE IF t1.right[node] = Nil
        THEN Result(ReplaceRoot(t1, t1.left[node]), PyBool(TRUE))
      ELSE LET t2 == DeleteBoth(t1, node)
           IN Result(t2, IF t2.err THEN PyNone ELSE PyBool(TRUE))

\* Mutant: the two one-child branches are swapped, so the root is replaced by
\* the child it does not have.
deleteWrongChild(t, k) ==
    LET node == find_node(t, k) IN
    IF node = Nil \/ t.key[node] # k THEN Result(t, PyBool(FALSE))
    ELSE
      LET t1 == Splay(t, node) IN
      IF t1.err THEN Result(t1, PyNone)
      ELSE IF t1.left[node] = Nil
        THEN Result(ReplaceRoot(t1, t1.left[node]), PyBool(TRUE))
      ELSE IF t1.right[node] = Nil
        THEN Result(ReplaceRoot(t1, t1.right[node]), PyBool(TRUE))
      ELSE LET t2 == DeleteBoth(t1, node)
           IN Result(t2, IF t2.err THEN PyNone ELSE PyBool(TRUE))

delete(t, k) ==
    LET node == find_node(t, k) IN
    IF node = Nil \/ t.key[node] # k THEN Result(t, PyBool(FALSE))
    ELSE
      LET t1 == Splay(t, node) IN
      IF t1.err THEN Result(t1, PyNone)
      ELSE IF t1.left[node] = Nil
        THEN Result(ReplaceRoot(t1, t1.right[node]), PyBool(TRUE))
      ELSE IF t1.right[node] = Nil
        THEN Result(ReplaceRoot(t1, t1.left[node]), PyBool(TRUE))
      ELSE LET t2 == DeleteBoth(t1, node)
           IN Result(t2, IF t2.err THEN PyNone ELSE PyBool(TRUE))

\* ------------------------------------------------------- minimum / maximum
\* Mutant: the empty-tree guard is missing, so None is dereferenced.
minimumNoGuard(t) ==
    IF t.root = Nil THEN Result([t EXCEPT !.err = TRUE], PyNone)
    ELSE LET current == LeftMost(t, t.root)
         IN Result(Splay(t, current), PyTuple(t.key[current], t.value[current]))

minimum(t) ==
    IF t.root = Nil THEN Result(t, PyNone)
    ELSE LET current == LeftMost(t, t.root)
         IN Result(Splay(t, current), PyTuple(t.key[current], t.value[current]))

\* Mutant: the descent to the rightmost node is missing.
maximumNoDescent(t) ==
    IF t.root = Nil THEN Result(t, PyNone)
    ELSE LET current == t.root
         IN Result(Splay(t, current), PyTuple(t.key[current], t.value[current]))

maximum(t) ==
    IF t.root = Nil THEN Result(t, PyNone)
    ELSE LET current == RightMost(t, t.root)
         IN Result(Splay(t, current), PyTuple(t.key[current], t.value[current]))

\* ----------------------------------------------------------------- inorder
RECURSIVE InorderFrom(_, _)
InorderFrom(t, node) ==
    IF node = Nil THEN <<>>
    ELSE InorderFrom(t, t.left[node]) \o <<<<t.key[node], t.value[node]>>>>
         \o InorderFrom(t, t.right[node])

inorder(t) == InorderFrom(t, t.root)

is_empty(t) == t.root = Nil

\* ---------------------------------------------------------- the state machine
\* The keys inorder() lists.
KeySet(t) == LET s == inorder(t) IN {s[i][1] : i \in 1..Len(s)}

\* A call as lastOp records it: made on the tree as it is now.
Call(op, k, v) ==
    [op |-> op, key |-> k, value |-> v, present |-> k # 0 /\ k \in KeySet(Tree)]

Init ==
    /\ root = Nil
    /\ key = [n \in Nodes |-> 0]
    /\ value = [n \in Nodes |-> NoneVal]
    /\ left = [n \in Nodes |-> Nil]
    /\ right = [n \in Nodes |-> Nil]
    /\ parent = [n \in Nodes |-> Nil]
    /\ nalloc = 0
    /\ lastOp = Call("init", 0, NoneVal)
    /\ ret = PyNone
    /\ raised = FALSE
    /\ latest = [k \in Keys |-> [stored |-> FALSE, value |-> NoneVal]]

\* The nodes some chain of left, right and parent references leads to from the
\* root: the Node objects that are still referenced when a call has returned.
RECURSIVE Closure(_, _, _)
Closure(t, seen, frontier) ==
    IF frontier = {} THEN seen
    ELSE LET n == CHOOSE m \in frontier : TRUE
             more == ({t.left[n], t.right[n], t.parent[n]} \ {Nil}) \ seen
         IN Closure(t, seen \cup more, (frontier \ {n}) \cup more)

Referenced(t) == IF t.root = Nil THEN {} ELSE Closure(t, {t.root}, {t.root})

\* When delete returns, its local variable `node` is gone, and reference
\* counting reclaims every Node nothing refers to any more: its fields are lost.
\* No other method unlinks a node.
Collect(t) ==
    LET live == Referenced(t)
        keep(f, d) == [n \in Nodes |-> IF n \in live THEN f[n] ELSE d]
    IN IF \A n \in Nodes : n \in live \/ t.key[n] = 0 THEN t
       ELSE [t EXCEPT !.key = keep(t.key, 0), !.value = keep(t.value, NoneVal),
                      !.left = keep(t.left, Nil), !.right = keep(t.right, Nil),
                      !.parent = keep(t.parent, Nil)]

\* The heap after a call; a call that raised returns nothing.
Commit(t, r) ==
    /\ root' = t.root
    /\ key' = t.key
    /\ value' = t.value
    /\ left' = t.left
    /\ right' = t.right
    /\ parent' = t.parent
    /\ nalloc' = t.nalloc
    /\ raised' = t.err
    /\ ret' = IF t.err THEN PyNone ELSE r

\* Whether insert(k, ...) would construct a Node.
Allocates(t, k) ==
    LET n == find_node(t, k) IN n = Nil \/ t.key[n] # k

Insert(k, v) ==
    /\ Allocates(Tree, k) => nalloc < MaxAlloc
    /\ \E t \in {insert(Tree, k, v)} : Commit(t, PyNone)
    /\ lastOp' = Call("insert", k, v)
    /\ latest' = [latest EXCEPT ![k] = [stored |-> TRUE, value |-> v]]
    /\ OnlySplayTree

Find(k) ==
    /\ \E r \in {find(Tree, k)} : Commit(r.t, r.ret)
    /\ lastOp' = Call("find", k, NoneVal)
    /\ UNCHANGED latest
    /\ OnlySplayTree

Delete(k) ==
    /\ \E r \in {delete(Tree, k)} :
         /\ \E t \in {Collect(r.t)} : Commit(t, r.ret)
         /\ latest' = IF ~r.t.err /\ r.ret = PyBool(TRUE)
                        THEN [latest EXCEPT ![k] = [stored |-> FALSE, value |-> NoneVal]]
                        ELSE latest
    /\ lastOp' = Call("delete", k, NoneVal)
    /\ OnlySplayTree

Minimum ==
    /\ \E r \in {minimum(Tree)} : Commit(r.t, r.ret)
    /\ lastOp' = Call("minimum", 0, NoneVal)
    /\ UNCHANGED latest
    /\ OnlySplayTree

Maximum ==
    /\ \E r \in {maximum(Tree)} : Commit(r.t, r.ret)
    /\ lastOp' = Call("maximum", 0, NoneVal)
    /\ UNCHANGED latest
    /\ OnlySplayTree

Next ==
    \/ \E k \in Keys, v \in Values : Insert(k, v)
    \/ \E k \in Keys : Find(k)
    \/ \E k \in Keys : Delete(k)
    \/ Minimum
    \/ Maximum

\* ------------------------------------------------- the read-only accesses
\* The list inorder() returns, as a Python value.
PyList(s) == [tag |-> "list", a |-> s, b |-> 0]

\* inorder(): _inorder appends to a fresh list and assigns to no field.
Inorder ==
    /\ \E s \in {inorder(Tree)} : Commit(Tree, PyList(s))
    /\ lastOp' = Call("inorder", 0, NoneVal)
    /\ UNCHANGED latest
    /\ OnlySplayTree

\* is_empty(): a test of self.root.
IsEmpty ==
    /\ \E b \in {is_empty(Tree)} : Commit(Tree, PyBool(b))
    /\ lastOp' = Call("is_empty", 0, NoneVal)
    /\ UNCHANGED latest
    /\ OnlySplayTree

\* Every public method of SplayTree.
NextRead ==
    \/ Next
    \/ Inorder
    \/ IsEmpty

\* ------------------------------------------------------ the cost of a run
\* One long run of the SplayTree, with its cost counted: CostKeys keys are
\* inserted in ascending order, and then a key smaller than all of them is
\* deleted again and again, up to CostOps calls in all.
CostKeys == 64
CostOps == 200

\* How many nodes the loop of _find_node (and of insert, which descends the
\* same way) visits from `current`.
RECURSIVE VisitsFrom(_, _, _)
VisitsFrom(t, current, k) ==
    IF k = t.key[current] THEN 1
    ELSE IF k < t.key[current]
      THEN IF t.left[current] = Nil THEN 1
           ELSE 1 + VisitsFrom(t, t.left[current], k)
    ELSE IF t.right[current] = Nil THEN 1
           ELSE 1 + VisitsFrom(t, t.right[current], k)

Visits(t, k) == IF t.root = Nil THEN 0 ELSE VisitsFrom(t, t.root, k)

\* insert(k): the nodes its descent visits, and the rotations of its splay,
\* one for each level between the root and the node it splays. A new node hangs
\* below the last node visited; a node found is the last node visited.
InsertCost(t, k) ==
    LET d == Visits(t, k)
        n == find_node(t, k)
    IN IF n # Nil /\ t.key[n] = k THEN d + (d - 1) ELSE d + d

\* delete(k) of a key that is not stored: the nodes its descent visits; it
\* splays nothing.
DeleteMissCost(t, k) == Visits(t, k)

CostInit ==
    /\ root = Nil
    /\ key = [n \in 1..CostKeys |-> 0]
    /\ value = [n \in 1..CostKeys |-> NoneVal]
    /\ left = [n \in 1..CostKeys |-> Nil]
    /\ right = [n \in 1..CostKeys |-> Nil]
    /\ parent = [n \in 1..CostKeys |-> Nil]
    /\ nalloc = 0
    /\ lastOp = Call("init", 0, NoneVal)
    /\ ret = PyNone
    /\ raised = FALSE
    /\ latest = [k \in Keys |-> [stored |-> FALSE, value |-> NoneVal]]
    /\ cOps = 0
    /\ cTotal = 0

\* insert(k) of the next key in ascending order; the keys start at 2.
CountedInsert ==
    /\ nalloc < CostKeys
    /\ \E k \in {nalloc + 2} :
         /\ \E t \in {insert(Tree, k, NoneVal)} : Commit(t, PyNone)
         /\ lastOp' = Call("insert", k, NoneVal)
         /\ cTotal' = cTotal + InsertCost(Tree, k)
    /\ cOps' = cOps + 1
    /\ UNCHANGED latest
    /\ OnlyCounted

\* delete(1), once all keys are in: 1 is smaller than every stored key.
CountedDeleteMiss ==
    /\ nalloc = CostKeys
    /\ cOps < CostOps
    /\ \E r \in {delete(Tree, 1)} : Commit(r.t, r.ret)
    /\ lastOp' = Call("delete", 1, NoneVal)
    /\ cTotal' = cTotal + DeleteMissCost(Tree, 1)
    /\ cOps' = cOps + 1
    /\ UNCHANGED latest
    /\ OnlyCounted

CostNext == CountedInsert \/ CountedDeleteMiss

(***************************************************************************)
(* A model of src/src/tree/bst.py: the plain binary search tree, which     *)
(* keeps duplicates and never restructures.                                *)
(***************************************************************************)
\* Values are 1..MaxBstVal, and at most MaxInserts values are inserted in one
\* run.
MaxBstVal == 3
MaxInserts == 5

BstVals == 1..MaxBstVal

\* A BinaryTreeNode is the triple of its value, left and right; None is the
\* empty tuple. No node is shared, so a subtree is a value.
None == <<>>
BinaryTreeNode(v) == <<v, None, None>>

RECURSIVE insert_recursive(_, _)

\* Mutant: an equal value is dropped instead of stored to the right.
insert_recursive_drops(node, v) ==
    IF v = node[1] THEN node
    ELSE IF v < node[1]
      THEN IF node[2] = None
             THEN <<node[1], BinaryTreeNode(v), node[3]>>
             ELSE <<node[1], insert_recursive(node[2], v), node[3]>>
      ELSE IF node[3] = None
             THEN <<node[1], node[2], BinaryTreeNode(v)>>
             ELSE <<node[1], node[2], insert_recursive(node[3], v)>>

\* _insert_recursive, which assigns into the node it is given: the node after.
insert_recursive(node, v) ==
    IF v < node[1]
      THEN IF node[2] = None
             THEN <<node[1], BinaryTreeNode(v), node[3]>>
             ELSE <<node[1], insert_recursive(node[2], v), node[3]>>
      ELSE IF node[3] = None
             THEN <<node[1], node[2], BinaryTreeNode(v)>>
             ELSE <<node[1], node[2], insert_recursive(node[3], v)>>

\* _insert_one: the root after.
insert_one(r, v) ==
    IF r = None THEN BinaryTreeNode(v) ELSE insert_recursive(r, v)

\* insert with a list: _insert_one for each item in turn.
RECURSIVE insert_batch(_, _)
insert_batch(r, vs) ==
    IF vs = <<>> THEN r ELSE insert_batch(insert_one(r, Head(vs)), Tail(vs))

\* _search_recursive: the node found, or None.
RECURSIVE search_recursive(_, _)
search_recursive(node, v) ==
    IF node # None
      THEN IF node[1] = v THEN node
           ELSE IF v < node[1]
             THEN IF node[2] # None THEN search_recursive(node[2], v) ELSE None
             ELSE IF node[3] # None THEN search_recursive(node[3], v) ELSE None
      ELSE None

search(r, v) == search_recursive(r, v)

RECURSIVE find_min(_)
find_min(node) == IF node[2] # None THEN find_min(node[2]) ELSE node

RECURSIVE find_max(_)
find_max(node) == IF node[3] # None THEN find_max(node[3]) ELSE node

RECURSIVE delete_recursive(_, _)

\* Mutant: with two children the successor's value is copied but the successor
\* is not removed from the right subtree.
delete_recursive_keeps_successor(node, v) ==
    IF node = None THEN node
    ELSE IF v < node[1] THEN <<node[1], delete_recursive(node[2], v), node[3]>>
    ELSE IF v > node[1] THEN <<node[1], node[2], delete_recursive(node[3], v)>>
    ELSE IF node[2] = None /\ node[3] = None THEN None
    ELSE IF node[2] = None THEN node[3]
    ELSE IF node[3] = None THEN node[2]
    ELSE LET successor == find_min(node[3])
         IN <<successor[1], node[2], node[3]>>

\* _delete_recursive: what it returns, the root of the subtree after.
delete_recursive(node, v) ==
    IF node = None THEN node
    ELSE IF v < node[1] THEN <<node[1], delete_recursive(node[2], v), node[3]>>
    ELSE IF v > node[1] THEN <<node[1], node[2], delete_recursive(node[3], v)>>
    ELSE IF node[2] = None /\ node[3] = None THEN None
    ELSE IF node[2] = None THEN node[3]
    ELSE IF node[3] = None THEN node[2]
    ELSE LET successor == find_min(node[3])
         IN <<successor[1], node[2], delete_recursive(node[3], successor[1])>>

RECURSIVE inorder_recursive(_)
inorder_recursive(node) ==
    IF node # None
      THEN inorder_recursive(node[2]) \o <<node[1]>> \o inorder_recursive(node[3])
      ELSE <<>>

bst_inorder(r) == inorder_recursive(r)

RECURSIVE size_recursive(_)
size_recursive(node) ==
    IF node = None THEN 0
    ELSE 1 + size_recursive(node[2]) + size_recursive(node[3])

size(r) == size_recursive(r)

\* min_value and max_value: None on the empty tree.
min_value(r) == IF r = None THEN PyNone ELSE PyValue(find_min(r)[1])
max_value(r) == IF r = None THEN PyNone ELSE PyValue(find_max(r)[1])

\* A call as bLastOp records it.
BstCall(op, v) == [op |-> op, value |-> v]

BstInit ==
    /\ bst = None
    /\ bExpected = [v \in BstVals |-> 0]
    /\ bCalls = 0
    /\ bDeleted = FALSE
    /\ bLastOp = BstCall("init", 0)

\* The bag of expected values after the items of vs are inserted.
RECURSIVE Inserted(_, _)
Inserted(b, vs) ==
    IF vs = <<>> THEN b
    ELSE Inserted([b EXCEPT ![Head(vs)] = @ + 1], Tail(vs))

\* insert(value) with a value that is not a list.
BstInsert(v) ==
    /\ bCalls < MaxInserts
    /\ bst' = insert_one(bst, v)
    /\ bExpected' = Inserted(bExpected, <<v>>)
    /\ bCalls' = bCalls + 1
    /\ bLastOp' = BstCall("insert", v)
    /\ UNCHANGED bDeleted
    /\ OnlyBst

\* insert(value) with a list of no, one or two items.
BstInsertBatch(vs) ==
    /\ bCalls + Len(vs) <= MaxInserts
    /\ bst' = insert_batch(bst, vs)
    /\ bExpected' = Inserted(bExpected, vs)
    /\ bCalls' = bCalls + Len(vs)
    /\ bLastOp' = BstCall("insert_batch", 0)
    /\ UNCHANGED bDeleted
    /\ OnlyBst

BstDelete(v) ==
    /\ bst' = delete_recursive(bst, v)
    /\ bExpected' = IF bExpected[v] > 0 THEN [bExpected EXCEPT ![v] = @ - 1]
                    ELSE bExpected
    /\ bDeleted' = TRUE
    /\ bLastOp' = BstCall("delete", v)
    /\ UNCHANGED bCalls
    /\ OnlyBst

BstNext ==
    \/ \E v \in BstVals : BstInsert(v)
    \/ \E vs \in UNION {[1..n -> BstVals] : n \in 0..2} : BstInsertBatch(vs)
    \/ \E v \in BstVals : BstDelete(v)

(***************************************************************************)
(* A model of src/stack/fast_thread_safe_stack.py: threads calling the     *)
(* methods of one FastNonBlockingStack, a statement at a time.             *)
(***************************************************************************)
\* NumThreads threads call the stack; a bounded stack is built with maxsize
\* FastMaxsize; at most MaxPushes push calls are made in one run.
NumThreads == 2
FastMaxsize == 2
MaxPushes == 3

Threads == 1..NumThreads
Items == 1..MaxPushes

\* An int, as a method returns it.
PyInt(n) == [tag |-> "int", a |-> n, b |-> 0]
\* An exception that leaves a method.
PyRaise(e) == [tag |-> e, a |-> 0, b |-> 0]

\* Mutant: the stack counts as full only once it holds more than maxsize.
PushRefusesLate(items, maxsize) == maxsize > 0 /\ Len(items) > maxsize

\* The test push makes before it appends (line 38); full() makes the same.
PushRefuses(items, maxsize) == maxsize > 0 /\ Len(items) >= maxsize

fast_full(items, maxsize) == maxsize > 0 /\ Len(items) >= maxsize
fast_size(items) == Len(items)

\* Mutant: the item is taken from the bottom, pop(0).
ListPopFront(items) == [item |-> items[1], rest |-> Tail(items)]

\* list.pop() on a list that is not empty: the item taken and the list left.
ListPop(items) ==
    [item |-> items[Len(items)], rest |-> SubSeq(items, 1, Len(items) - 1)]

FastInit ==
    /\ fMaxsize \in {0, FastMaxsize}
    /\ fItems = <<>>
    /\ fLock = 0
    /\ fWaiters = <<>>
    /\ fPc = [t \in Threads |-> "idle"]
    /\ fOp = [t \in Threads |-> "none"]
    /\ fArg = [t \in Threads |-> 0]
    /\ fRet = [by |-> 0, op |-> "none", val |-> PyNone]
    /\ fNext = 0
    /\ fPushed = <<>>
    /\ fPopped = [i \in Items |-> 0]

\* The first statement of each method's body.
FirstPc(op) ==
    CASE op = "push" -> "push_check"
      [] op \in {"pop", "pop_timed"} -> "pop_check"
      [] op = "try_pop" -> "try_check"
      [] op = "peek" -> "peek"
      [] op = "clear" -> "clear"

\* Thread t calls push(item) with a fresh item and enters `with self._lock`,
\* which it can once no thread holds the lock. A call has no effect before that.
FastCallPush(t) ==
    /\ fPc[t] = "idle"
    /\ fLock = 0
    /\ fNext < MaxPushes
    /\ fNext' = fNext + 1
    /\ fLock' = t
    /\ fPc' = [fPc EXCEPT ![t] = FirstPc("push")]
    /\ fOp' = [fOp EXCEPT ![t] = "push"]
    /\ fArg' = [fArg EXCEPT ![t] = fNext + 1]
    /\ UNCHANGED <<fMaxsize, fItems, fWaiters, fRet, fPushed, fPopped>>
    /\ OnlyFast

\* Thread t calls op: pop() ("pop"), pop(timeout) with a positive timeout
\* ("pop_timed"), try_pop(), peek() or clear(), and enters `with self._lock`.
FastCall(t, op) ==
    /\ fPc[t] = "idle"
    /\ fLock = 0
    /\ fLock' = t
    /\ fPc' = [fPc EXCEPT ![t] = FirstPc(op)]
    /\ fOp' = [fOp EXCEPT ![t] = op]
    /\ UNCHANGED <<fMaxsize, fItems, fWaiters, fArg, fRet, fNext, fPushed, fPopped>>
    /\ OnlyFast

\* t returns r, leaving the with block: the lock is released.
FastReturn(t, r) ==
    /\ fRet' = [by |-> t, op |-> fOp[t], val |-> r]
    /\ fOp' = [fOp EXCEPT ![t] = "none"]
    /\ fArg' = [fArg EXCEPT ![t] = 0]
    /\ fLock' = 0

\* Line 38: push refuses on a full stack.
FastPushCheck(t) ==
    /\ fPc[t] = "push_check"
    /\ IF PushRefuses(fItems, fMaxsize)
         THEN /\ FastReturn(t, PyBool(FALSE))
              /\ fPc' = [fPc EXCEPT ![t] = "idle"]
         ELSE /\ fPc' = [fPc EXCEPT ![t] = "push_append"]
              /\ UNCHANGED <<fRet, fOp, fArg, fLock>>
    /\ UNCHANGED <<fMaxsize, fItems, fWaiters, fNext, fPushed, fPopped>>
    /\ OnlyFast

\* Lines 41-43: append, wake the oldest waiter on _not_empty, return True.
FastPushAppend(t) ==
    /\ fPc[t] = "push_append"
    /\ fItems' = Append(fItems, fArg[t])
    /\ fPushed' = Append(fPushed, fArg[t])
    /\ IF fWaiters = <<>>
         THEN /\ fPc' = [fPc EXCEPT ![t] = "idle"]
              /\ UNCHANGED fWaiters
         ELSE /\ fPc' = [fPc EXCEPT ![t] = "idle", ![Head(fWaiters)] = "pop_notified"]
              /\ fWaiters' = Tail(fWaiters)
    /\ FastReturn(t, PyBool(TRUE))
    /\ UNCHANGED <<fMaxsize, fNext, fPopped>>
    /\ OnlyFast

\* Lines 56-64: pop on an empty stack returns None when it has no timeout, and
\* otherwise waits on _not_empty, which releases the lock.
FastPopCheck(t) ==
    /\ fPc[t] = "pop_check"
    /\ IF fItems # <<>>
         THEN /\ fPc' = [fPc EXCEPT ![t] = "pop_take"]
              /\ UNCHANGED <<fRet, fOp, fArg, fLock, fWaiters>>
         ELSE IF fOp[t] = "pop"
           THEN /\ FastReturn(t, PyNone)
                /\ fPc' = [fPc EXCEPT ![t] = "idle"]
                /\ UNCHANGED fWaiters
           ELSE /\ fPc' = [fPc EXCEPT ![t] = "pop_waiting"]
                /\ fWaiters' = Append(fWaiters, t)
                /\ fLock' = 0
                /\ UNCHANGED <<fRet, fOp, fArg>>
    /\ UNCHANGED <<fMaxsize, fItems, fNext, fPushed, fPopped>>
    /\ OnlyFast

\* Line 64: the wait times out; t stops waiting and must take the lock again.
FastWaitTimeout(t) ==
    /\ fPc[t] = "pop_waiting"
    /\ fWaiters' = SelectSeq(fWaiters, LAMBDA w : w # t)
    /\ fPc' = [fPc EXCEPT ![t] = "pop_timedout"]
    /\ UNCHANGED <<fMaxsize, fItems, fLock, fOp, fArg, fRet, fNext, fPushed, fPopped>>
    /\ OnlyFast

\* Lines 64-65: wait returns False with the lock held again; pop returns None.
FastWaitFailed(t) ==
    /\ fPc[t] = "pop_timedout"
    /\ fLock = 0
    /\ FastReturn(t, PyNone)
    /\ fPc' = [fPc EXCEPT ![t] = "idle"]
    /\ UNCHANGED <<fMaxsize, fItems, fWaiters, fNext, fPushed, fPopped>>
    /\ OnlyFast

\* Lines 64, 66 and 63: wait returns True with the lock held again; the loop
\* waits once more if the stack is empty and time remains, and ends otherwise.
FastWaitNotified(t) ==
    /\ fPc[t] = "pop_notified"
    /\ fLock = 0
    /\ \E remains \in BOOLEAN :
         IF fItems = <<>> /\ remains
           THEN /\ fPc' = [fPc EXCEPT ![t] = "pop_waiting"]
                /\ fWaiters' = Append(fWaiters, t)
                /\ UNCHANGED fLock
           ELSE /\ fPc' = [fPc EXCEPT ![t] = "pop_take"]
                /\ fLock' = t
                /\ UNCHANGED fWaiters
    /\ UNCHANGED <<fMaxsize, fItems, fOp, fArg, fRet, fNext, fPushed, fPopped>>
    /\ OnlyFast

\* Lines 68-73: pop takes the top item if there is one, and returns None if not.
FastPopTake(t) ==
    /\ fPc[t] = "pop_take"
    /\ IF fItems # <<>>
         THEN \E r \in {ListPop(fItems)} :
                /\ fItems' = r.rest
                /\ fPopped' = [fPopped EXCEPT ![r.item] = @ + 1]
                /\ FastReturn(t, PyValue(r.item))
         ELSE /\ FastReturn(t, PyNone)
              /\ UNCHANGED <<fItems, fPopped>>
    /\ fPc' = [fPc EXCEPT ![t] = "idle"]
    /\ UNCHANGED <<fMaxsize, fWaiters, fNext, fPushed>>
    /\ OnlyFast

\* Line 83: try_pop returns None on an empty stack.
FastTryCheck(t) ==
    /\ fPc[t] = "try_check"
    /\ IF fItems # <<>>
         THEN /\ fPc' = [fPc EXCEPT ![t] = "try_take"]
              /\ UNCHANGED <<fRet, fOp, fArg, fLock>>
         ELSE /\ FastReturn(t, PyNone)
              /\ fPc' = [fPc EXCEPT ![t] = "idle"]
    /\ UNCHANGED <<fMaxsize, fItems, fWaiters, fNext, fPushed, fPopped>>
    /\ OnlyFast

\* Lines 84-86: try_pop takes the top item; list.pop() raises on an empty list.
FastTryTake(t) ==
    /\ fPc[t] = "try_take"
    /\ IF fItems # <<>>
         THEN \E r \in {ListPop(fItems)} :
                /\ fItems' = r.rest
                /\ fPopped' = [fPopped EXCEPT ![r.item] = @ + 1]
                /\ FastReturn(t, PyValue(r.item))
         ELSE /\ FastReturn(t, PyRaise("IndexError"))
              /\ UNCHANGED <<fItems, fPopped>>
    /\ fPc' = [fPc EXCEPT ![t] = "idle"]
    /\ UNCHANGED <<fMaxsize, fWaiters, fNext, fPushed>>
    /\ OnlyFast

\* Line 78: peek returns the top item, or None.
FastPeek(t) ==
    /\ fPc[t] = "peek"
    /\ FastReturn(t, IF fItems # <<>> THEN PyValue(fItems[Len(fItems)]) ELSE PyNone)
    /\ fPc' = [fPc EXCEPT ![t] = "idle"]
    /\ UNCHANGED <<fMaxsize, fItems, fWaiters, fNext, fPushed, fPopped>>
    /\ OnlyFast

\* Lines 112-115: clear empties the list and returns how many items it held;
\* no thread ever waits on _not_full.
FastClear(t) ==
    /\ fPc[t] = "clear"
    /\ fItems' = <<>>
    /\ FastReturn(t, PyInt(Len(fItems)))
    /\ fPc' = [fPc EXCEPT ![t] = "idle"]
    /\ UNCHANGED <<fMaxsize, fWaiters, fNext, fPushed, fPopped>>
    /\ OnlyFast

\* Threads calling push, pop, try_pop, peek and clear.
FastNext ==
    \E t \in Threads :
      \/ FastCallPush(t)
      \/ \E op \in {"pop", "pop_timed", "try_pop", "peek", "clear"} : FastCall(t, op)
      \/ FastPushCheck(t)
      \/ FastPushAppend(t)
      \/ FastPopCheck(t)
      \/ FastWaitTimeout(t)
      \/ FastWaitFailed(t)
      \/ FastWaitNotified(t)
      \/ FastPopTake(t)
      \/ FastTryCheck(t)
      \/ FastTryTake(t)
      \/ FastPeek(t)
      \/ FastClear(t)

\* Threads calling push, pop without a timeout, and try_pop only.
FastLifoNext ==
    \E t \in Threads :
      \/ FastCallPush(t)
      \/ \E op \in {"pop", "try_pop"} : FastCall(t, op)
      \/ FastPushCheck(t)
      \/ FastPushAppend(t)
      \/ FastPopCheck(t)
      \/ FastPopTake(t)
      \/ FastTryCheck(t)
      \/ FastTryTake(t)

(***************************************************************************)
(* A model of src/stack/optimized_none_blocking_stack.py: threads calling  *)
(* the methods of one OptimizedNonBlockingStack. Each call of a LifoQueue  *)
(* method is one step, as the queue does it under its own mutex; nothing   *)
(* else is atomic.                                                         *)
(***************************************************************************)
\* A bounded stack is built with maxsize OptMaxsize.
OptMaxsize == 2

\* queue.Full and queue.Empty, the conditions under which put_nowait and
\* get_nowait raise.
QueueFull(items, maxsize) == maxsize > 0 /\ Len(items) >= maxsize
QueueEmpty(items) == items = <<>>

OptInit ==
    /\ oMaxsize \in {0, OptMaxsize}
    /\ oItems = <<>>
    /\ oClosed = FALSE
    /\ oCloseLock = 0
    /\ oPc = [t \in Threads |-> "idle"]
    /\ oOp = [t \in Threads |-> "none"]
    /\ oArg = [t \in Threads |-> 0]
    /\ oRet = [by |-> 0, op |-> "none", val |-> PyNone]
    /\ oNext = 0
    /\ oCloseReturned = FALSE

\* The statement after the closed test of each method.
AfterClosedTest(op) ==
    CASE op = "push" -> "push_put"
      [] op = "pop" -> "pop_get"
      [] op = "pop_timed" -> "pop_get_timed"
      [] op = "try_pop" -> "try_get"
      [] op = "peek" -> "peek_get"

\* Thread t's call ends with r: returned, or raised.
OptEnd(t, op, r) ==
    /\ oRet' = [by |-> t, op |-> op, val |-> r]
    /\ oPc' = [oPc EXCEPT ![t] = "idle"]

\* Thread t calls push, pop, try_pop or peek and makes its first test,
\* `if self._closed`, holding no lock: it raises RuntimeError or goes on.
OptCall(t, op) ==
    /\ oPc[t] = "idle"
    /\ op = "push" => oNext < MaxPushes
    /\ oOp' = [oOp EXCEPT ![t] = op]
    /\ IF oClosed
         THEN /\ OptEnd(t, op, PyRaise("RuntimeError"))
              /\ UNCHANGED <<oArg, oNext>>
         ELSE /\ oPc' = [oPc EXCEPT ![t] = AfterClosedTest(op)]
              /\ oArg' = [oArg EXCEPT ![t] = IF op = "push" THEN oNext + 1 ELSE 0]
              /\ oNext' = IF op = "push" THEN oNext + 1 ELSE oNext
              /\ UNCHANGED oRet
    /\ UNCHANGED <<oMaxsize, oItems, oClosed, oCloseLock, oCloseReturned>>
    /\ OnlyOpt

\* Lines 29-33: put_nowait appends, or raises Full and push returns False.
OptPushPut(t) ==
    /\ oPc[t] = "push_put"
    /\ IF QueueFull(oItems, oMaxsize)
         THEN OptEnd(t, oOp[t], PyBool(FALSE)) /\ UNCHANGED oItems
         ELSE OptEnd(t, oOp[t], PyBool(TRUE)) /\ oItems' = Append(oItems, oArg[t])
    /\ UNCHANGED <<oMaxsize, oClosed, oCloseLock, oOp, oArg, oNext, oCloseReturned>>
    /\ OnlyOpt

\* Lines 45-48 and 55-58: get_nowait takes the top item, or raises Empty and
\* the method returns None.
OptGet(t) ==
    /\ oPc[t] \in {"pop_get", "try_get"}
    /\ IF QueueEmpty(oItems)
         THEN OptEnd(t, oOp[t], PyNone) /\ UNCHANGED oItems
         ELSE \E r \in {ListPop(oItems)} :
                OptEnd(t, oOp[t], PyValue(r.item)) /\ oItems' = r.rest
    /\ UNCHANGED <<oMaxsize, oClosed, oCloseLock, oOp, oArg, oNext, oCloseReturned>>
    /\ OnlyOpt

\* Line 46 with a timeout: get waits for an item and takes it.
OptGetTimed(t) ==
    /\ oPc[t] = "pop_get_timed"
    /\ ~QueueEmpty(oItems)
    /\ \E r \in {ListPop(oItems)} :
         OptEnd(t, oOp[t], PyValue(r.item)) /\ oItems' = r.rest
    /\ UNCHANGED <<oMaxsize, oClosed, oCloseLock, oOp, oArg, oNext, oCloseReturned>>
    /\ OnlyOpt

\* Lines 46-48: the wait in get ends with Empty, and pop returns None.
OptGetTimeout(t) ==
    /\ oPc[t] = "pop_get_timed"
    /\ QueueEmpty(oItems)
    /\ OptEnd(t, oOp[t], PyNone)
    /\ UNCHANGED <<oMaxsize, oItems, oClosed, oCloseLock, oOp, oArg, oNext, oCloseReturned>>
    /\ OnlyOpt

\* Line 72: peek takes the top item out of the queue, or returns None.
OptPeekGet(t) ==
    /\ oPc[t] = "peek_get"
    /\ IF QueueEmpty(oItems)
         THEN OptEnd(t, oOp[t], PyNone) /\ UNCHANGED <<oItems, oArg>>
         ELSE \E r \in {ListPop(oItems)} :
                /\ oItems' = r.rest
                /\ oArg' = [oArg EXCEPT ![t] = r.item]
                /\ oPc' = [oPc EXCEPT ![t] = "peek_put"]
                /\ UNCHANGED oRet
    /\ UNCHANGED <<oMaxsize, oClosed, oCloseLock, oOp, oNext, oCloseReturned>>
    /\ OnlyOpt

\* Lines 73-76: peek puts the item back and returns it; if the queue has
\* filled up meanwhile put_nowait raises Full and peek returns None.
OptPeekPut(t) ==
    /\ oPc[t] = "peek_put"
    /\ IF QueueFull(oItems, oMaxsize)
         THEN OptEnd(t, oOp[t], PyNone) /\ UNCHANGED oItems
         ELSE OptEnd(t, oOp[t], PyValue(oArg[t])) /\ oItems' = Append(oItems, oArg[t])
    /\ UNCHANGED <<oMaxsize, oClosed, oCloseLock, oOp, oArg, oNext, oCloseReturned>>
    /\ OnlyOpt

\* Line 92: thread t calls close() and takes _close_lock.
OptCallClose(t) ==
    /\ oPc[t] = "idle"
    /\ oCloseLock = 0
    /\ oCloseLock' = t
    /\ oOp' = [oOp EXCEPT ![t] = "close"]
    /\ oPc' = [oPc EXCEPT ![t] = "close_set"]
    /\ UNCHANGED <<oMaxsize, oItems, oClosed, oArg, oRet, oNext, oCloseReturned>>
    /\ OnlyOpt

\* Line 93: close sets _closed, releases _close_lock and returns.
OptCloseSet(t) ==
    /\ oPc[t] = "close_set"
    /\ oClosed' = TRUE
    /\ oCloseLock' = 0
    /\ oCloseReturned' = TRUE
    /\ OptEnd(t, oOp[t], PyNone)
    /\ UNCHANGED <<oMaxsize, oItems, oOp, oArg, oNext>>
    /\ OnlyOpt

OptNext ==
    \E t \in Threads :
      \/ \E op \in {"push", "pop", "pop_timed", "try_pop", "peek"} : OptCall(t, op)
      \/ OptPushPut(t)
      \/ OptGet(t)
      \/ OptGetTimed(t)
      \/ OptGetTimeout(t)
      \/ OptPeekGet(t)
      \/ OptPeekPut(t)
      \/ OptCallClose(t)
      \/ OptCloseSet(t)

(***************************************************************************)
(* A model of src/stack/minimal_lock_stack.py: threads calling the methods *)
(* of one MinimalLockStack. A test of the list, an append and a pop are    *)
(* each one step, as the interpreter runs them; only the size test of a    *)
(* bounded push runs under _lock.                                          *)
(***************************************************************************)
\* A bounded stack is built with maxsize MinMaxsize.
MinMaxsize == 2

MinInit ==
    /\ mMaxsize \in {0, MinMaxsize}
    /\ mItems = <<>>
    /\ mLock = 0
    /\ mPc = [t \in Threads |-> "idle"]
    /\ mOp = [t \in Threads |-> "none"]
    /\ mArg = [t \in Threads |-> 0]
    /\ mRet = [by |-> 0, op |-> "none", val |-> PyNone]
    /\ mNext = 0
    /\ mPopped = [i \in Items |-> 0]

\* Thread t's call ends with r: returned, or raised.
MinEnd(t, r) ==
    /\ mRet' = [by |-> t, op |-> mOp[t], val |-> r]
    /\ mPc' = [mPc EXCEPT ![t] = "idle"]
    /\ mOp' = [mOp EXCEPT ![t] = "none"]
    /\ mArg' = [mArg EXCEPT ![t] = 0]

\* Line 20: thread t calls push(item) with a fresh item; a bounded stack goes
\* on to the size test under the lock, an unlimited one straight to the append.
MinCallPush(t) ==
    /\ mPc[t] = "idle"
    /\ mNext < MaxPushes
    /\ mNext' = mNext + 1
    /\ mOp' = [mOp EXCEPT ![t] = "push"]
    /\ mArg' = [mArg EXCEPT ![t] = mNext + 1]
    /\ mPc' = [mPc EXCEPT ![t] = IF mMaxsize > 0 THEN "push_lock" ELSE "push_append"]
    /\ UNCHANGED <<mMaxsize, mItems, mLock, mRet, mPopped>>
    /\ OnlyMin

\* Line 21: `with self._lock`, once no thread holds the lock.
MinPushLock(t) ==
    /\ mPc[t] = "push_lock"
    /\ mLock = 0
    /\ mLock' = t
    /\ mPc' = [mPc EXCEPT ![t] = "push_check"]
    /\ UNCHANGED <<mMaxsize, mItems, mOp, mArg, mRet, mNext, mPopped>>
    /\ OnlyMin

\* Lines 22-23: the size test; either way the with block ends and the lock is
\* released, before the append.
MinPushCheck(t) ==
    /\ mPc[t] = "push_check"
    /\ mLock' = 0
    /\ IF Len(mItems) >= mMaxsize
         THEN MinEnd(t, PyBool(FALSE))
         ELSE /\ mPc' = [mPc EXCEPT ![t] = "push_append"]
              /\ UNCHANGED <<mOp, mArg, mRet>>
    /\ UNCHANGED <<mMaxsize, mItems, mNext, mPopped>>
    /\ OnlyMin

\* Lines 26-27: append, holding no lock, and return True.
MinPushAppend(t) ==
    /\ mPc[t] = "push_append"
    /\ mItems' = Append(mItems, mArg[t])
    /\ MinEnd(t, PyBool(TRUE))
    /\ UNCHANGED <<mMaxsize, mLock, mNext, mPopped>>
    /\ OnlyMin

\* Lines 32 and 34: thread t calls pop(), or try_pop(), which calls pop(), and
\* tests the list: an empty one makes it return None.
MinCallPop(t, op) ==
    /\ mPc[t] = "idle"
    /\ IF mItems = <<>>
         THEN /\ mRet' = [by |-> t, op |-> op, val |-> PyNone]
              /\ UNCHANGED <<mPc, mOp>>
         ELSE /\ mPc' = [mPc EXCEPT ![t] = "pop_take"]
              /\ mOp' = [mOp EXCEPT ![t] = op]
              /\ UNCHANGED mRet
    /\ UNCHANGED <<mMaxsize, mItems, mLock, mArg, mNext, mPopped>>
    /\ OnlyMin

\* Line 33: list.pop() takes the top item; on a list that another thread has
\* emptied since the test it raises IndexError.
MinPopTake(t) ==
    /\ mPc[t] = "pop_take"
    /\ IF mItems = <<>>
         THEN /\ MinEnd(t, PyRaise("IndexError"))
              /\ UNCHANGED <<mItems, mPopped>>
         ELSE \E r \in {ListPop(mItems)} :
                /\ mItems' = r.rest
                /\ mPopped' = [mPopped EXCEPT ![r.item] = @ + 1]
                /\ MinEnd(t, PyValue(r.item))
    /\ UNCHANGED <<mMaxsize, mLock, mNext>>
    /\ OnlyMin

\* Lines 40-46: empty() and size() read the length of the list.
MinRead(t, op) ==
    /\ mPc[t] = "idle"
    /\ mRet' = [by |-> t, op |-> op,
                val |-> IF op = "empty" THEN PyBool(Len(mItems) = 0)
                        ELSE PyInt(Len(mItems))]
    /\ UNCHANGED <<mMaxsize, mItems, mLock, mPc, mOp, mArg, mNext, mPopped>>
    /\ OnlyMin

MinNext ==
    \E t \in Threads :
      \/ MinCallPush(t)
      \/ MinPushLock(t)
      \/ MinPushCheck(t)
      \/ MinPushAppend(t)
      \/ \E op \in {"pop", "try_pop"} : MinCallPop(t, op)
      \/ MinPopTake(t)
      \/ \E op \in {"empty", "size"} : MinRead(t, op)

\* ---------------------------------------------------------- specifications
\* Each specification runs the methods of one class on an object of it; the
\* objects of the other classes stay as constructed.
allvars == <<vars, bstvars, fastvars, optvars, minvars, costvars>>

\* A stack that no thread calls is one built with the default maxsize.
FastIdle == FastInit /\ fMaxsize = 0
OptIdle == OptInit /\ oMaxsize = 0
MinIdle == MinInit /\ mMaxsize = 0

\* No call has been made and counted.
CostIdle == cOps = 0 /\ cTotal = 0

InitSplayTree == Init /\ CostIdle /\ BstInit /\ FastIdle /\ OptIdle /\ MinIdle
InitBst == BstInit /\ Init /\ CostIdle /\ FastIdle /\ OptIdle /\ MinIdle
InitFast == FastInit /\ Init /\ CostIdle /\ BstInit /\ OptIdle /\ MinIdle
InitOpt == OptInit /\ Init /\ CostIdle /\ BstInit /\ FastIdle /\ MinIdle
InitMin == MinInit /\ Init /\ CostIdle /\ BstInit /\ FastIdle /\ OptIdle
InitCost == CostInit /\ BstInit /\ FastIdle /\ OptIdle /\ MinIdle

Spec == InitSplayTree /\ [][Next]_allvars

SpecRead == InitSplayTree /\ [][NextRead]_allvars

SpecBst == InitBst /\ [][BstNext]_allvars

SpecFast == InitFast /\ [][FastNext]_allvars

SpecFastLifo == InitFast /\ [][FastLifoNext]_allvars

SpecOpt == InitOpt /\ [][OptNext]_allvars

SpecCost == InitCost /\ [][CostNext]_allvars

SpecMin == InitMin /\ [][MinNext]_allvars

\* ------------------------------------------------- vocabulary of the claims
\* The nodes of the subtree rooted at n, by left and right links.
RECURSIVE Subtree(_, _)
Subtree(t, n) ==
    IF n = Nil THEN {} ELSE {n} \cup Subtree(t, t.left[n]) \cup Subtree(t, t.right[n])

\* The (key, value) pairs inorder() lists, as a set, and how many it lists.
PairSet(t) == LET s == inorder(t) IN {s[i] : i \in 1..Len(s)}
Count(t) == Len(inorder(t))

\* inorder() without the pair of key k.
Without(s, k) == SelectSeq(s, LAMBDA p : p[1] # k)

\* Whether the two trees are the same heap: same root, same links, same keys
\* and values, same nodes constructed.
SameHeap(t0, t1) ==
    /\ t1.root = t0.root /\ t1.key = t0.key /\ t1.value = t0.value
    /\ t1.left = t0.left /\ t1.right = t0.right /\ t1.parent = t0.parent
    /\ t1.nalloc = t0.nalloc

\* C1: after any sequence of insert, find, delete, minimum and maximum from the
\* empty tree, inorder() lists keys in strictly ascending order: BST order holds
\* at every node and no key appears twice.
C1_InorderAscending ==
    LET s == inorder(Tree) IN
    /\ \A i \in 1..(Len(s) - 1) : s[i][1] < s[i + 1][1]
    /\ \A n \in Subtree(Tree, root) :
         /\ \A m \in Subtree(Tree, left[n]) : key[m] < key[n]
         /\ \A m \in Subtree(Tree, right[n]) : key[m] > key[n]

\* A tree of three keys that an access has just restructured.
C1_Witness ==
    /\ Count(Tree) = 3
    /\ lastOp.op \in {"find", "minimum", "maximum"}
    /\ left[root] # Nil /\ right[root] # Nil

\* C2: every key whose latest insert(k, v) was not followed by a successful
\* delete(k) is found with value v: find(k) would return v now, and a find(k)
\* that just ran returned v.
C2_RoundTrip ==
    /\ \A k \in Keys :
         latest[k].stored => find(Tree, k).ret = PyValue(latest[k].value)
    /\ (lastOp.op = "find" /\ latest[lastOp.key].stored)
         => (~raised /\ ret = PyValue(latest[lastOp.key].value))

\* A find that returned a value after another key was inserted and deleted.
C2_Witness ==
    /\ lastOp.op = "find"
    /\ latest[lastOp.key] = [stored |-> TRUE, value |-> SomeVal]
    /\ ret = PyValue(SomeVal)
    /\ nalloc = 3 /\ Count(Tree) = 2

\* C3: delete(k) on a tree that contains k returns True; afterwards find(k)
\* reports not-found and inorder() is what it was with the pair of k removed
\* (one key fewer, all others with their values).
C3_DeleteStored ==
    [][\A t1 \in {Tree'}, call \in {lastOp'}, r \in {ret'}, e \in {raised'} :
         (call.op = "delete" /\ call.present) =>
            /\ ~e
            /\ r = PyBool(TRUE)
            /\ find(t1, call.key).ret = PyNone
            /\ Count(t1) = Count(Tree) - 1
            /\ inorder(t1) = Without(inorder(Tree), call.key)]_vars

\* A successful delete that left two keys behind.
C3_Witness ==
    /\ lastOp.op = "delete" /\ lastOp.present
    /\ ret = PyBool(TRUE)
    /\ Count(Tree) = 2

\* C4: delete(k) on a tree that does not contain k returns False without
\* raising and leaves the heap as it was: same root, same links, same keys and
\* values; it splays nothing.
C4_DeleteMissing ==
    [][\A t1 \in {Tree'}, call \in {lastOp'}, r \in {ret'}, e \in {raised'} :
         (call.op = "delete" /\ ~call.present) =>
            /\ ~e
            /\ r = PyBool(FALSE)
            /\ SameHeap(Tree, t1)
            /\ inorder(t1) = inorder(Tree)]_vars

\* A failed delete whose descent ended below the root, where a splay would
\* have changed the tree.
C4_Witness ==
    /\ lastOp.op = "delete" /\ ~lastOp.present
    /\ ret = PyBool(FALSE)
    /\ root # Nil
    /\ find_node(Tree, lastOp.key) # root

\* C5: insert(k, v) with k not in the tree adds exactly one key, makes find(k)
\* return v, and keeps every pair that was stored.
C5_InsertNew ==
    [][\A t1 \in {Tree'}, call \in {lastOp'}, e \in {raised'} :
         (call.op = "insert" /\ ~call.present) =>
            /\ ~e
            /\ Count(t1) = Count(Tree) + 1
            /\ find(t1, call.key).ret = PyValue(call.value)
            /\ PairSet(t1) = PairSet(Tree) \cup {<<call.key, call.value>>}]_vars

\* An insert of a new key into a tree that held two.
C5_Witness ==
    /\ lastOp.op = "insert" /\ ~lastOp.present
    /\ Count(Tree) = 3

\* C6: insert(k, v2) with k in the tree stores v2 in the node that holds k,
\* constructs no node, and leaves the number of keys and the values of all
\* other keys as they were.
C6_InsertOverwrite ==
    [][\A t1 \in {Tree'}, call \in {lastOp'}, e \in {raised'} :
         (call.op = "insert" /\ call.present) =>
            LET n == find_node(Tree, call.key) IN
            /\ ~e
            /\ key[n] = call.key
            /\ t1.key[n] = call.key /\ t1.value[n] = call.value
            /\ n \in Subtree(t1, t1.root)
            /\ t1.nalloc = nalloc
            /\ Count(t1) = Count(Tree)
            /\ Without(inorder(t1), call.key) = Without(inorder(Tree), call.key)
            /\ <<call.key, call.value>> \in PairSet(t1)]_vars

\* An overwrite, in a tree of several keys, that stored a value.
C6_Witness ==
    /\ lastOp.op = "insert" /\ lastOp.present
    /\ lastOp.value # NoneVal
    /\ Count(Tree) >= 2

C8_ParentLinks ==
    LET reach == Subtree(Tree, root) IN
    /\ \A n \in reach :
         /\ left[n] # Nil => parent[left[n]] = n
         /\ right[n] # Nil => parent[right[n]] = n
    /\ root # Nil => parent[root] = Nil
    /\ Referenced(Tree) = reach

\* A delete has removed a node from a tree that still holds others.
C8_Witness ==
    /\ lastOp.op = "delete"
    /\ ret = PyBool(TRUE)
    /\ root # Nil
    /\ nalloc > Cardinality(Subtree(Tree, root))

\* C9: on a tree with no keys find(k), minimum() and maximum() return None and
\* delete(k) returns False; none raises and the tree stays empty.
C9_EmptyTree ==
    [][\A t1 \in {Tree'}, call \in {lastOp'}, r \in {ret'}, e \in {raised'} :
         (root = Nil /\ call.op \in {"find", "delete", "minimum", "maximum"}) =>
            /\ ~e
            /\ r = IF call.op = "delete" THEN PyBool(FALSE) ELSE PyNone
            /\ t1.root = Nil
            /\ inorder(t1) = <<>>
            /\ SameHeap(Tree, t1)]_vars

\* minimum() has run on a tree emptied by deletes.
C9_Witness ==
    /\ lastOp.op = "minimum"
    /\ root = Nil
    /\ ret = PyNone
    /\ nalloc > 0

\* C10: on a non-empty tree minimum() returns the pair of the smallest stored
\* key and maximum() the pair of the largest; afterwards that node is the root
\* and the stored pairs are as they were.
C10_Extremes ==
    [][\A t1 \in {Tree'}, call \in {lastOp'}, r \in {ret'}, e \in {raised'} :
         (root # Nil /\ call.op \in {"minimum", "maximum"}) =>
            LET ks == KeySet(Tree)
                x == IF call.op = "minimum"
                       THEN CHOOSE k \in ks : \A j \in ks : k <= j
                       ELSE CHOOSE k \in ks : \A j \in ks : k >= j
            IN /\ ~e
               /\ r.tag = "tuple" /\ r.a = x
               /\ <<r.a, r.b>> \in PairSet(Tree)
               /\ t1.root # Nil /\ t1.key[t1.root] = x /\ t1.parent[t1.root] = Nil
               /\ inorder(t1) = inorder(Tree)]_vars

\* maximum() has brought the largest of three keys to the root.
C10_Witness ==
    /\ lastOp.op = "maximum"
    /\ Count(Tree) = 3
    /\ ret.tag = "tuple" /\ ret.a = 3
    /\ left[root] # Nil /\ left[left[root]] # Nil

\* C11: root is None at construction, becomes a node on the first insert, and
\* returns to None exactly when a delete removes the last remaining key; after
\* every call is_empty() is True exactly when no key is stored (none is listed
\* by inorder(), none has an insert not yet undone by a successful delete).
C11_Lifecycle ==
    /\ root = Nil
    /\ [][\A t1 \in {Tree'}, call \in {lastOp'}, l1 \in {latest'} :
            /\ is_empty(t1) <=> (\A k \in Keys : ~l1[k].stored)
            /\ is_empty(t1) <=> (Count(t1) = 0)
            /\ (root = Nil /\ call.op = "insert") => t1.root # Nil
            /\ (root = Nil /\ t1.root # Nil) => call.op = "insert"
            /\ (root # Nil /\ t1.root = Nil)
                 <=> (call.op = "delete" /\ call.present /\ Count(Tree) = 1)]_vars

\* The tree has been filled with three keys and emptied again by deletes.
C11_Witness ==
    /\ lastOp.op = "delete" /\ lastOp.present
    /\ root = Nil
    /\ nalloc = 3

\* The whole part of the binary logarithm of n.
RECURSIVE Log2(_)
Log2(n) == IF n <= 1 THEN 0 ELSE 1 + Log2(n \div 2)

\* The amortized cost of one operation on a splay tree of at most n keys, by
\* the access lemma: at most 3 log2(n) + 1 rotations, and as many node visits.
Budget(n) == 2 * (3 * Log2(n) + 1)

\* C12: over any sequence of public operations, hits and misses alike, on a
\* tree that never holds more than n keys, node visits and rotations together
\* stay within the amortized logarithmic budget per operation.
C12_AmortizedLog == cTotal <= cOps * Budget(CostKeys)

\* C18: find(k) for a key that is not stored, on a non-empty tree, returns None
\* and leaves at the root the last node its descent visited, which holds the
\* greatest stored key below k or the least stored key above k; the stored
\* pairs are as they were.
C18_SplayOnMiss ==
    [][\A t1 \in {Tree'}, call \in {lastOp'}, r \in {ret'}, e \in {raised'} :
         (call.op = "find" /\ ~call.present /\ root # Nil) =>
            LET ks == KeySet(Tree)
                below == {j \in ks : j < call.key}
                above == {j \in ks : j > call.key}
                x == t1.key[t1.root]
            IN /\ ~e
               /\ r = PyNone
               /\ t1.root = find_node(Tree, call.key)
               /\ t1.parent[t1.root] = Nil
               /\ \/ x \in below /\ \A j \in below : j <= x
                  \/ x \in above /\ \A j \in above : j >= x
               /\ inorder(t1) = inorder(Tree)]_vars

\* A find of a deleted key has missed in a tree that holds both its neighbours.
C18_Witness ==
    /\ lastOp.op = "find" /\ ~lastOp.present
    /\ Count(Tree) = 2
    /\ lastOp.key = 2
    /\ nalloc = 3

\* The tree as it is, and the trees one rotation away from it: the shapes a
\* splay in progress passes through, not only those a call leaves behind.
Shapes ==
    LET reach == Subtree(Tree, root) IN
    {Tree} \cup {RotateRight(Tree, z) : z \in {n \in reach : left[n] # Nil}}
           \cup {RotateLeft(Tree, z) : z \in {n \in reach : right[n] # Nil}}

\* The i-th ancestor of n by parent links (Nil when there is none), and the
\* depth of n: how many ancestors it has.
RECURSIVE Ancestor(_, _, _)
Ancestor(t, n, i) ==
    IF i = 0 \/ n = Nil THEN n ELSE Ancestor(t, t.parent[n], i - 1)

Depth(t, n) == Cardinality({i \in 1..t.nalloc : Ancestor(t, n, i) # Nil})

\* Whether the loop of _splay, run on node from tree t, ends within `fuel`
\* iterations with node at the root, each iteration lowering the depth of node
\* by 1 when it has no grandparent and by 2 when it has one.
RECURSIVE SplayDescends(_, _, _)
SplayDescends(t, node, fuel) ==
    IF t.parent[node] = Nil
      THEN ~t.err /\ t.root = node
      ELSE LET g == t.parent[t.parent[node]]
               t1 == SplayStep(t, node)
           IN /\ fuel > 0
              /\ ~t1.err
              /\ Depth(t1, node) = Depth(t, node) - (IF g = Nil THEN 1 ELSE 2)
              /\ SplayDescends(t1, node, fuel - 1)

\* C19: for every node of a well-formed tree (the tree between calls, and the
\* trees one rotation away from it), _splay(node) terminates: each iteration of
\* its loop lowers the depth of the node by 1 (zig) or by 2 (zig-zig, zig-zag),
\* so it ends within depth-many iterations; it returns the node, which then has
\* no parent and is the root. _splay(None) returns None and changes nothing.
C19_SplayTerminates ==
    /\ \A t \in Shapes : \A n \in Subtree(t, t.root) :
         /\ SplayDescends(t, n, Depth(t, n))
         /\ \A t1 \in {Splay(t, n)} :
              ~t1.err /\ t1.root = n /\ t1.parent[n] = Nil
         /\ SplayReturn(n) = n
    /\ Splay(Tree, Nil) = Tree
    /\ SplayReturn(Nil) = Nil

\* A left chain of three nodes: splaying the deepest is a zig-zig, splaying the
\* middle one a zig, and one rotation away the deepest is splayed by a zig-zag.
C19_Witness ==
    /\ root # Nil /\ left[root] # Nil /\ left[left[root]] # Nil
    /\ Depth(Tree, left[left[root]]) = 2
    /\ Depth(Tree, left[root]) = 1

\* The tree a right rotation at x is said to leave: y = x.left takes the place
\* of x, x becomes the right child of y, and the former right child b of y
\* becomes the left child of x; every other field is as it was.
RightRotated(t, x) ==
    LET y == t.left[x]
        b == t.right[y]
        p == t.parent[x]
    IN [t EXCEPT
          !.root = IF p = Nil THEN y ELSE t.root,
          !.left = [n \in DOMAIN t.left |->
                      IF n = x THEN b
                      ELSE IF n = p /\ t.left[p] = x THEN y ELSE t.left[n]],
          !.right = [n \in DOMAIN t.right |->
                      IF n = y THEN x
                      ELSE IF n = p /\ t.right[p] = x THEN y ELSE t.right[n]],
          !.parent = [n \in DOMAIN t.parent |->
                      IF n = x THEN y
                      ELSE IF n = y THEN p
                      ELSE IF n = b THEN x ELSE t.parent[n]]]

\* The mirror image, for a left rotation at x with y = x.right.
LeftRotated(t, x) ==
    LET y == t.right[x]
        b == t.left[y]
        p == t.parent[x]
    IN [t EXCEPT
          !.root = IF p = Nil THEN y ELSE t.root,
          !.right = [n \in DOMAIN t.right |->
                      IF n = x THEN b
                      ELSE IF n = p /\ t.right[p] = x THEN y ELSE t.right[n]],
          !.left = [n \in DOMAIN t.left |->
                      IF n = y THEN x
                      ELSE IF n = p /\ t.left[p] = x THEN y ELSE t.left[n]],
          !.parent = [n \in DOMAIN t.parent |->
                      IF n = x THEN y
                      ELSE IF n = y THEN p
                      ELSE IF n = b THEN x ELSE t.parent[n]]]

\* C20: _rotate_right(x), for a node x with a left child y in a well-formed
\* tree (the tree between calls, or a tree one rotation away from it), gives x
\* the former right child of y as left child (its parent becomes x), puts y in
\* the place of x (under x's old parent on the same side, or at the root), and
\* makes x the right child of y; _rotate_left is the mirror image. No other
\* field changes, and inorder() lists the same pairs in the same order.
C20_Rotations ==
    \A t \in Shapes : \A x \in Subtree(t, t.root) :
      /\ t.left[x] # Nil =>
           \A t1 \in {RotateRight(t, x)} :
             /\ t1 = RightRotated(t, x)
             /\ inorder(t1) = inorder(t)
      /\ t.right[x] # Nil =>
           \A t1 \in {RotateLeft(t, x)} :
             /\ t1 = LeftRotated(t, x)
             /\ inorder(t1) = inorder(t)

\* A tree whose root has a left child with a right child: a right rotation at
\* the root moves that subtree across; and a node below the root with a left
\* child: a right rotation there relinks the node's parent.
C20_Witness ==
    /\ \E t \in Shapes :
         t.root # Nil /\ t.left[t.root] # Nil /\ t.right[t.left[t.root]] # Nil
    /\ \E x \in Subtree(Tree, root) : parent[x] # Nil /\ left[x] # Nil

\* The values of a bag (a count per value) in non-decreasing order.
RECURSIVE SortedFrom(_, _)
SortedFrom(b, v) ==
    IF v > MaxBstVal THEN <<>>
    ELSE [i \in 1..b[v] |-> v] \o SortedFrom(b, v + 1)

Sorted(b) == SortedFrom(b, 1)

\* The sequence s without its first occurrence of v.
RemoveOne(s, v) ==
    LET i == CHOOSE n \in 1..Len(s) : s[n] = v /\ \A m \in 1..(n - 1) : s[m] # v
    IN SubSeq(s, 1, i - 1) \o SubSeq(s, i + 1, Len(s))

C17_BstDelete ==
    [][\A b1 \in {bst'}, call \in {bLastOp'} :
         call.op = "delete" =>
            LET before == bst_inorder(bst)
                after == bst_inorder(b1)
            IN IF \E n \in 1..Len(before) : before[n] = call.value
                 THEN /\ after = RemoveOne(before, call.value)
                      /\ size(b1) = size(bst) - 1
                      /\ \A n \in 1..(Len(after) - 1) : after[n] <= after[n + 1]
                 ELSE /\ after = before
                      /\ size(b1) = size(bst)
                      /\ b1 = bst]_bstvars

\* A delete has removed one of two equal values from a tree of four, whose
\* root held that value and had two children.
C17_Witness ==
    /\ bLastOp.op = "delete"
    /\ bExpected[bLastOp.value] = 1
    /\ size(bst) = 3
    /\ bCalls = 4
    /\ bst[1] = bLastOp.value /\ bst[2] # None /\ bst[3] # None

\* Whether thread t returns from the method op in this step.
FastReturns(t, op) == fOp[t] = op /\ fPc[t] # "idle" /\ fPc'[t] = "idle"

\* C13: on a stack built with maxsize > 0, whatever the threads' calls of push,
\* pop, try_pop, peek and clear and however they interleave, the stack never
\* holds more than maxsize items; a push returns False, adding nothing, when
\* the stack holds maxsize items as it takes effect, and otherwise returns True
\* having put its item on top.
C13_FastBounded ==
    [][fMaxsize > 0 =>
         /\ fast_size(fItems') <= fMaxsize
         /\ \A t \in Threads :
              FastReturns(t, "push") =>
                 IF fast_size(fItems) >= fMaxsize
                   THEN fRet' = [by |-> t, op |-> "push", val |-> PyBool(FALSE)]
                        /\ fItems' = fItems
                   ELSE /\ fRet' = [by |-> t, op |-> "push", val |-> PyBool(TRUE)]
                        /\ fItems' = Append(fItems, fArg[t])
                        /\ fast_size(fItems') = fast_size(fItems) + 1]_fastvars

\* The third push was refused by a stack that holds maxsize items.
C13_Witness ==
    /\ fMaxsize > 0
    /\ fast_size(fItems) = fMaxsize
    /\ fNext = 3
    /\ fRet.op = "push" /\ fRet.val = PyBool(FALSE)

\* The set of the elements of a sequence.
Range(q) == {q[i] : i \in 1..Len(q)}

\* Every item appended is stored in the stack once or has been returned by one
\* pop, and not both.
Conserved(items, pushed, popped) ==
    /\ \A i \in Items : popped[i] <= 1
    /\ Cardinality(Range(items)) = Len(items)
    /\ Range(pushed) = Range(items) \cup {i \in Items : popped[i] > 0}
    /\ Range(items) \cap {i \in Items : popped[i] > 0} = {}

\* C14: with threads calling push, pop() and try_pop(), every pop or try_pop
\* that returns an item returns the one appended last among those not yet
\* removed, as it takes effect; every item pushed is stored or was returned by
\* exactly one pop, never by two; and a pop or try_pop that takes effect on an
\* empty stack returns None without raising.
C14_FastLifo ==
    /\ Conserved(fItems, fPushed, fPopped)
    /\ [][/\ Conserved(fItems', fPushed', fPopped')
          /\ \A t \in Threads :
               (FastReturns(t, "pop") \/ FastReturns(t, "try_pop")) =>
                  LET live == SelectSeq(fPushed, LAMBDA i : fPopped[i] = 0)
                  IN IF fItems = <<>>
                       THEN fRet'.by = t /\ fRet'.val = PyNone /\ fItems' = <<>>
                       ELSE /\ fRet'.by = t /\ fRet'.val = PyValue(live[Len(live)])
                            /\ fItems' = SubSeq(fItems, 1, Len(fItems) - 1)
                            /\ fPopped'[live[Len(live)]] = 1]_fastvars

\* The third item pushed has been popped from above the first two.
C14_Witness ==
    /\ Len(fPushed) = 3
    /\ fPopped[fPushed[3]] = 1
    /\ fast_size(fItems) = 2
    /\ fRet.op \in {"pop", "try_pop"} /\ fRet.val = PyValue(fPushed[3])

\* Whether thread t calls push, pop, try_pop or peek in this step: it leaves
\* "idle" for the body of one of them, or its call ends at once.
OptCalls(t) ==
    /\ oPc[t] = "idle"
    /\ \/ oPc'[t] \notin {"idle", "close_set"}
       \/ oRet' # oRet /\ oRet'.by = t

\* C15: once a call of close() has returned, every push, pop, try_pop and peek
\* that is called raises RuntimeError, and no step changes the contents of the
\* stack any more, not even a step of a push or pop that another thread had
\* begun before close() ran.
C15_ClosePrevents ==
    [][oCloseReturned =>
         /\ oItems' = oItems
         /\ \A t \in Threads :
              OptCalls(t) => /\ oPc'[t] = "idle"
                             /\ oRet'.val = PyRaise("RuntimeError")]_optvars

\* C21: in every execution of insert, find, delete, minimum and maximum from a
\* reachable tree, _rotate_right(x) is only invoked on a node x that has a left
\* child and _rotate_left(x) only on a node that has a right child: no
\* rotation dereferences None, so no call raises; the same holds for a splay of
\* any node of the tree and of the trees one rotation away from it.
C21_RotationPrecondition ==
    [][/\ \A call \in {lastOp'}, e \in {raised'} :
            call.op \in {"insert", "find", "delete", "minimum", "maximum"} => ~e
       /\ \A t \in Shapes : \A n \in Subtree(t, t.root) :
            t.parent[n] # Nil => ~SplayStep(t, n).err]_vars

\* An insert has put the middle key between the two others: the new node is
\* the grandchild of the root on the inner side, and its splay is a zig-zag,
\* a rotation at the parent and then one at the grandparent.
C21_Witness ==
    /\ lastOp.op = "insert" /\ ~lastOp.present
    /\ Count(Tree) = 3
    /\ root # Nil /\ left[root] # Nil /\ right[root] # Nil
    /\ ~raised

\* Whether, in t1, node n stands where g stood in t: under the former parent
\* of g on the same side, or at the root.
StandsFor(t, t1, n, g) ==
    LET gg == t.parent[g] IN
    /\ t1.parent[n] = gg
    /\ IF gg = Nil THEN t1.root = n
       ELSE /\ t1.root = t.root
            /\ t.left[gg] = g => t1.left[gg] = n
            /\ t.right[gg] = g => t1.right[gg] = n

\* C22: when a node and its parent are both left children, one iteration of
\* the loop of _splay leaves the node where the grandparent was, the former
\* parent as the right child of the node and the former grandparent as the
\* right child of the former parent: the chain of three is reversed, and the
\* node does not get parent and grandparent as child and grandchild on two
\* sides. The four subtrees hang in key order under the reversed chain. The
\* mirror image holds when both are right children.
C22_ZigZig ==
    \A t \in Shapes : \A n \in Subtree(t, t.root) :
      LET p == t.parent[n]
          g == IF p = Nil THEN Nil ELSE t.parent[p]
      IN g # Nil =>
          \A t1 \in {SplayStep(t, n)} :
            /\ (n = t.left[p] /\ p = t.left[g]) =>
                 /\ ~t1.err
                 /\ StandsFor(t, t1, n, g)
                 /\ t1.right[n] = p /\ t1.parent[p] = n
                 /\ t1.right[p] = g /\ t1.parent[g] = p
                 /\ t1.left[n] = t.left[n]
                 /\ t1.left[p] = t.right[n]
                 /\ t1.left[g] = t.right[p]
                 /\ t1.right[g] = t.right[g]
                 /\ inorder(t1) = inorder(t)
            /\ (n = t.right[p] /\ p = t.right[g]) =>
                 /\ ~t1.err
                 /\ StandsFor(t, t1, n, g)
                 /\ t1.left[n] = p /\ t1.parent[p] = n
                 /\ t1.left[p] = g /\ t1.parent[g] = p
                 /\ t1.right[n] = t.right[n]
                 /\ t1.right[p] = t.left[n]
                 /\ t1.right[g] = t.left[p]
                 /\ t1.left[g] = t.left[g]
                 /\ inorder(t1) = inorder(t)

\* find(1) has run on the three keys and left a chain to the right, the
\* reverse of the chain to the left that a zig-zig starts from; the deepest
\* node of this chain and its parent are both right children.
C22_Witness ==
    /\ lastOp.op = "find" /\ lastOp.present /\ lastOp.key = 1
    /\ root # Nil /\ key[root] = 1
    /\ right[root] # Nil /\ right[right[root]] # Nil
    /\ right[right[right[root]]] = Nil

\* C23: in delete, when the node to delete, once splayed to the root, has both
\* children, the maximum of its left subtree is splayed only to the root of
\* that left subtree: right after this inner splay the node being deleted is
\* still the root of the tree and the splayed maximum is its left child; only
\* the reattachment that follows makes the maximum the root.
C23_InnerSplayLocal ==
    [][\A call \in {lastOp'}, t2 \in {Tree'} :
         (call.op = "delete" /\ call.present) =>
           LET node == find_node(Tree, call.key)
               t1 == Splay(Tree, node)
           IN (t1.left[node] # Nil /\ t1.right[node] # Nil) =>
                LET left_max == LeftMax(t1, node)
                    mid == InnerSplay(t1, node)
                IN /\ mid.root = node
                   /\ mid.parent[node] = Nil
                   /\ mid.left[node] = left_max
                   /\ mid.parent[left_max] = node
                   /\ t2.root = left_max]_vars

ReadsKeepOrder ==
    \A t \in Shapes :
      /\ \A k \in Keys : inorder(find(t, k).t) = inorder(t)
      /\ inorder(minimum(t).t) = inorder(t)
      /\ inorder(maximum(t).t) = inorder(t)

\* C25: inorder() and is_empty() leave the tree as it is, the same root, the
\* same links, keys and values, and return the list of pairs and whether the
\* root is None; find, minimum and maximum restructure the tree but never
\* change the sequence of (key, value) pairs that inorder() returns, whether
\* they run on the tree between calls or on a tree one rotation away from it.
C25_ReadOnly ==
    /\ [][\A call \in {lastOp'}, t1 \in {Tree'}, r \in {ret'}, e \in {raised'} :
         /\ call.op = "inorder" =>
              /\ ~e
              /\ SameHeap(Tree, t1)
              /\ r = PyList(inorder(Tree))
         /\ call.op = "is_empty" =>
              /\ ~e
              /\ SameHeap(Tree, t1)
              /\ r = PyBool(root = Nil)
         /\ call.op \in {"find", "minimum", "maximum"} =>
              /\ ~e
              /\ inorder(t1) = inorder(Tree)]_vars
    /\ []ReadsKeepOrder

\* inorder() has listed three pairs, and the tree it ran on had been
\* restructured before by a find, a minimum or a maximum: its root has a
\* grandchild.
C25_Witness ==
    /\ lastOp.op = "inorder"
    /\ ret.tag = "list" /\ Len(ret.a) = 3
    /\ \E n \in Subtree(Tree, root) : parent[n] # Nil /\ parent[parent[n]] # Nil

\* C26: a MinimalLockStack built with maxsize > 0 never holds more than
\* maxsize items, however the steps of threads that call push interleave: a
\* push that finds the stack full returns False, and a push that returns True
\* leaves at most maxsize items stored.
C26_MinBounded ==
    mMaxsize > 0 => Len(mItems) <= mMaxsize

\* Thread t's call of pop or try_pop ends in this step.
MinPopEnds(t) ==
    \/ mPc[t] = "pop_take" /\ mPc'[t] = "idle"
    \/ /\ mPc[t] = "idle" /\ mPc'[t] = "idle"
       /\ mRet' # mRet /\ mRet'.by = t /\ mRet'.op \in {"pop", "try_pop"}

\* C27: with several threads popping and pushing at once, every pop and
\* try_pop either returns an item that was stored, taking it off the stack, or
\* returns None on an empty stack; it never raises IndexError, and no item is
\* returned to two callers.
C27_MinPop ==
    [][\A t \in Threads : MinPopEnds(t) =>
         \/ /\ mRet'.val = PyNone
            /\ mItems = <<>>
            /\ mItems' = mItems
         \/ \E i \in Range(mItems) :
              /\ mRet'.val = PyValue(i)
              /\ mItems = Append(mItems', i)
              /\ mPopped'[i] = 1]_minvars

\* C28: a peek() that has returned has not changed the stack, whatever push
\* and pop calls of other threads ran meanwhile, also on a stack with
\* maxsize > 0: the item that peek took out is back in the queue when peek
\* returns, and is what peek returns; and peek returns None only when the
\* queue was empty at the moment it looked.
C28_PeekRestores ==
    [][\A t \in Threads :
         /\ (oPc[t] = "peek_put" /\ oPc'[t] = "idle") =>
              /\ oArg[t] \in Range(oItems')
              /\ Len(oItems') = Len(oItems) + 1
              /\ oRet'.val = PyValue(oArg[t])
         /\ (oPc[t] = "peek_get" /\ oPc'[t] = "idle") =>
              /\ oItems = <<>>
              /\ oItems' = oItems
              /\ oRet'.val = PyNone]_optvars

\* Whether find(k), delete(k) and inorder() agree on the tree t about a key
\* stored with the value None: find reports it like a missing key, inorder
\* lists it and delete removes it.
NoneValueHidden(t) ==
    \A k \in Keys :
      <<k, NoneVal>> \in PairSet(t) =>
        /\ find(t, k).ret = PyNone
        /\ \A j \in Keys : j \notin KeySet(t) => find(t, j).ret = find(t, k).ret
        /\ k \in KeySet(t)
        /\ delete(t, k).ret = PyBool(TRUE)
        /\ k \notin KeySet(delete(t, k).t)

\* C29: find(k) returns None if and only if k is not a key of the tree or the
\* value stored for k is None; so a key inserted with the value None, the
\* default of insert, is reported by find exactly like a missing key, while
\* inorder() lists it and delete(k) finds and removes it.
C29_FindNone ==
    /\ [][\A call \in {lastOp'}, r \in {ret'}, e \in {raised'} :
            call.op = "find" =>
              /\ ~e
              /\ r = PyNone <=>
                   \/ call.key \notin KeySet(Tree)
                   \/ <<call.key, NoneVal>> \in PairSet(Tree)]_vars
    /\ []NoneValueHidden(Tree)

\* find has returned None for a key that is stored, with the value None, in a
\* tree that holds another key with a value that is not None.
C29_Witness ==
    /\ lastOp.op = "find" /\ lastOp.present
    /\ ret = PyNone
    /\ root # Nil /\ key[root] = lastOp.key /\ value[root] = NoneVal
    /\ \E n \in Subtree(Tree, root) : value[n] # NoneVal

====
